---- MODULE Spec2Model ----
(***************************************************************************)
(* A model of the translator of riceriley59/CS-480, assignment 2:          *)
(*   - the chained hash table of hash/hash.h (the symbol table), and       *)
(*   - the bison push parser of parser.y with its grammar actions, its     *)
(*     error recovery and the emitter in main().                           *)
(***************************************************************************)
EXTENDS Integers, Sequences, FiniteSets, TLC

(***************************************************************************)
(* Bounds of the model.                                                    *)
(***************************************************************************)

\* hash.h:91 sets INITIAL_CAPACITY to 128.  The model scales it down so that
\* a resize (more than LOAD_FACTOR_THR * capacity elements) is within reach
\* of a bounded run; nothing in the code depends on the value itself.
INITIAL_CAPACITY == 1

\* Most calls (hash_insert and hash_remove together) of a table run.
MaxOps == 13

\* Most calls of a table run that name a key already used before (updates
\* and removals).
MaxDup == 2

\* The lines of a run on any input, and the indentation levels they take.
MaxLines == 3

MaxLevel == 1

\* The lines of a run on a brief input, the inputs of the runs checked for
\* termination.
MaxLiveLines == 2

(***************************************************************************)
(* Program constants.                                                      *)
(***************************************************************************)

LOAD_FACTOR_THR == 5

(***************************************************************************)
(* C strings.  A key is a TLA+ string; strbytes gives the bytes the C code *)
(* reads from it (strlen, *key++).                                         *)
(***************************************************************************)

strbytes ==
  [a |-> <<97>>, b |-> <<98>>, c |-> <<99>>, d |-> <<100>>, e |-> <<101>>,
   f |-> <<102>>, g |-> <<103>>, h |-> <<104>>, i |-> <<105>>, j |-> <<106>>,
   k |-> <<107>>, l |-> <<108>>, m |-> <<109>>, n |-> <<110>>,
   x |-> <<120>>, y |-> <<121>>,
   program |-> <<112, 114, 111, 103, 114, 97, 109>>]

\* The null pointer.
NULL == [null |-> TRUE]

(***************************************************************************)
(* hash.h: the hash function.  unsigned long arithmetic returned as an     *)
(* unsigned int: the low 32 bits, kept as two 16-bit halves.               *)
(***************************************************************************)

RECURSIVE djb_loop(_, _)
djb_loop(hash, s) ==
  IF s = <<>> THEN hash
  ELSE LET lo == hash.lo * 33 + Head(s)
           hi == hash.hi * 33 + (lo \div 65536)
       IN  djb_loop([hi |-> hi % 65536, lo |-> lo % 65536], Tail(s))

_djb_hash(key) == djb_loop([hi |-> 0, lo |-> 5381], strbytes[key])

\* hashval % hash->capacity
hash_idx(hashval, capacity) ==
  (((hashval.hi % capacity) * (65536 % capacity)) + (hashval.lo % capacity)) % capacity

(***************************************************************************)
(* hash.h: the table.  A struct hash is [table, capacity, num_elems], a    *)
(* chain is the sequence of its associations from the head.  The heap      *)
(* state the table acts on is [h, freed, dblfree]: the struct, the value   *)
(* pointers passed to free(), and whether one was passed twice.            *)
(***************************************************************************)

_hash_table_init(capacity) ==
  [table |-> [idx \in 0 .. capacity - 1 |-> <<>>],
   capacity |-> capacity,
   num_elems |-> 0]

hash_create == _hash_table_init(INITIAL_CAPACITY)

_association_create(key, value) == [key |-> key, value |-> value]

_association_free(mem, assoc) ==
  [mem EXCEPT !.freed = @ \cup {assoc.value},
              !.dblfree = @ \/ assoc.value \in mem.freed]

\* num_elems / (float)capacity, kept as the exact fraction.
_hash_load_factor(hash) == [num |-> hash.num_elems, den |-> hash.capacity]

\* _hash_load_factor(hash) > LOAD_FACTOR_THR
load_factor_exceeds_le(hash) ==
  _hash_load_factor(hash).num >= LOAD_FACTOR_THR * _hash_load_factor(hash).den

\* The same test letting one more element in before it holds.
load_factor_exceeds_late(hash) ==
  _hash_load_factor(hash).num > LOAD_FACTOR_THR * _hash_load_factor(hash).den + 1

load_factor_exceeds(hash) ==
  _hash_load_factor(hash).num > LOAD_FACTOR_THR * _hash_load_factor(hash).den

\* The walk "while (cur != NULL) { if (!strcmp(key, cur->key)) break; ... }":
\* the position of key in the chain, 0 when cur ends NULL.
chain_find(chain, key) ==
  IF \E p \in 1 .. Len(chain) : chain[p].key = key
  THEN CHOOSE p \in 1 .. Len(chain) :
         /\ chain[p].key = key
         /\ \A q \in 1 .. p - 1 : chain[q].key # key
  ELSE 0

\* Every association of the table in the order of the loops of _hash_resize,
\* hash_free and the iterator: buckets upwards, each chain from its head.
RECURSIVE assocs_from(_, _)
assocs_from(hash, idx) ==
  IF idx >= hash.capacity THEN <<>>
  ELSE hash.table[idx] \o assocs_from(hash, idx + 1)

hash_assocs(hash) == assocs_from(hash, 0)

\* hash_insert after its resize check, linking a new association without
\* looking for the key in the chain.
hash_put_blind(hash, key, value) ==
  LET idx == hash_idx(_djb_hash(key), hash.capacity)
  IN  [hash EXCEPT !.table[idx] = <<_association_create(key, value)>> \o @,
                   !.num_elems = @ + 1]

\* hash_insert after its resize check (hash.h:255-293).
hash_put(hash, key, value) ==
  LET idx == hash_idx(_djb_hash(key), hash.capacity)
      pos == chain_find(hash.table[idx], key)
  IN  IF pos # 0
      THEN [hash EXCEPT !.table[idx][pos].value = value]
      ELSE [hash EXCEPT !.table[idx] = <<_association_create(key, value)>> \o @,
                        !.num_elems = @ + 1]

\* _hash_resize without its loop over the old table.
_hash_resize_drop(mem) == [mem EXCEPT !.h = _hash_table_init(mem.h.capacity * 2)]

RECURSIVE hash_insert(_, _, _), _hash_resize(_), rehash(_, _)

\* The loop of _hash_resize over the old associations.
rehash(mem, old) ==
  IF old = <<>> THEN mem
  ELSE rehash(_association_free(hash_insert(mem, Head(old).key, Head(old).value),
                                Head(old)),
              Tail(old))

_hash_resize(mem) ==
  rehash([mem EXCEPT !.h = _hash_table_init(mem.h.capacity * 2)],
         hash_assocs(mem.h))

hash_insert(mem, key, value) ==
  LET m1 == IF load_factor_exceeds(mem.h) THEN _hash_resize(mem) ELSE mem
  IN  [m1 EXCEPT !.h = hash_put(m1.h, key, value)]

\* hash_remove unlinking the whole chain of the key's bucket.
hash_remove_bucket(mem, key) ==
  LET idx == hash_idx(_djb_hash(key), mem.h.capacity)
  IN  IF chain_find(mem.h.table[idx], key) # 0
      THEN [mem EXCEPT !.h.table[idx] = <<>>, !.h.num_elems = @ - 1]
      ELSE mem

hash_remove(mem, key) ==
  LET idx == hash_idx(_djb_hash(key), mem.h.capacity)
      chain == mem.h.table[idx]
      pos == chain_find(chain, key)
  IN  IF pos # 0
      THEN LET m1 == [mem EXCEPT !.h.table[idx] =
                        SubSeq(chain, 1, pos - 1) \o SubSeq(chain, pos + 1, Len(chain))]
               m2 == _association_free(m1, chain[pos])
           IN  [m2 EXCEPT !.h.num_elems = @ - 1]
      ELSE mem

hash_get(hash, key) ==
  LET chain == hash.table[hash_idx(_djb_hash(key), hash.capacity)]
      pos == chain_find(chain, key)
  IN  IF pos # 0 THEN chain[pos].value ELSE NULL

hash_contains(hash, key) ==
  LET chain == hash.table[hash_idx(_djb_hash(key), hash.capacity)]
  IN  IF chain_find(chain, key) # 0 THEN 1 ELSE 0

\* The loop of hash_free over the associations; the struct is gone after it.
RECURSIVE free_all(_, _)
free_all(mem, assocs) ==
  IF assocs = <<>> THEN mem
  ELSE free_all(_association_free(mem, Head(assocs)), Tail(assocs))

hash_free(mem) == [free_all(mem, hash_assocs(mem.h)) EXCEPT !.h = NULL]

\* struct hash_iter: next is the position of the association in the chain of
\* bucket next_idx, 0 for a NULL pointer.
\* The first i >= from with a non-empty bucket, or capacity (the while loop of
\* _update_hash_iter_next).
RECURSIVE next_bucket(_, _)
next_bucket(hash, i) ==
  IF i < hash.capacity /\ hash.table[i] = <<>> THEN next_bucket(hash, i + 1) ELSE i

\* _update_hash_iter_next that never follows the link of a chain.
_update_hash_iter_next_heads(iter) ==
  LET i == next_bucket(iter.hash, iter.next_idx + 1)
  IN  IF i < iter.hash.capacity
      THEN [iter EXCEPT !.next_idx = i, !.next = 1]
      ELSE [iter EXCEPT !.next = 0]

_update_hash_iter_next(iter) ==
  LET link == IF iter.next # 0 /\ iter.next < Len(iter.hash.table[iter.next_idx])
              THEN iter.next + 1
              ELSE 0
      i == next_bucket(iter.hash, iter.next_idx + 1)
  IN  IF link # 0
      THEN [iter EXCEPT !.next = link]
      ELSE IF i < iter.hash.capacity
           THEN [iter EXCEPT !.next_idx = i, !.next = 1]
           ELSE [iter EXCEPT !.next = 0]

hash_iter_create(hash) ==
  _update_hash_iter_next([hash |-> hash, next |-> 0, next_idx |-> 0 - 1])

hash_iter_has_next(iter) == IF iter.next # 0 THEN 1 ELSE 0

\* hash_iter_next: the pair handed out and the iterator after the call.
hash_iter_next(iter) ==
  [curr |-> iter.hash.table[iter.next_idx][iter.next],
   iter |-> _update_hash_iter_next(iter)]

\* The loop "while (hash_iter_has_next(iter)) hash_iter_next(iter, &key)":
\* the associations handed out, in order.
RECURSIVE hash_iter_loop(_)
hash_iter_loop(iter) ==
  IF hash_iter_has_next(iter) = 0 THEN <<>>
  ELSE <<hash_iter_next(iter).curr>> \o hash_iter_loop(hash_iter_next(iter).iter)

\* The keys hash_iter_next hands out from hash_iter_create until
\* hash_iter_has_next is 0.
hash_iter_keys(hash) ==
  [p \in 1 .. Len(hash_iter_loop(hash_iter_create(hash))) |->
     hash_iter_loop(hash_iter_create(hash))[p].key]


(***************************************************************************)
(* parser.y: the automaton.  bison builds from the grammar (parser.y:79-161*)
(* with the precedences of parser.y:64-70) an LALR(1) table; the tables    *)
(* below are that construction: shift wins an unresolved shift/reduce      *)
(* conflict, the earlier rule a reduce/reduce conflict, and a state that   *)
(* does not shift the error token reduces its most common rule by default. *)
(* States are 0 .. 114 (row s + 1), rules are numbered in the order of the *)
(* grammar from 1.  An entry n > 0 shifts to state n, n < 0 reduces rule   *)
(* -n; yydefact is the default reduction of a state (0: none, an error).   *)
(***************************************************************************)

NoRow == [t \in {} |-> 0]

YYFINAL == 34

yyr ==
  <<[lhs |-> "program", len |-> 1],
    [lhs |-> "statement_list", len |-> 2],
    [lhs |-> "statement_list", len |-> 1],
    [lhs |-> "statement", len |-> 1],
    [lhs |-> "statement", len |-> 1],
    [lhs |-> "statement", len |-> 1],
    [lhs |-> "statement", len |-> 1],
    [lhs |-> "statement", len |-> 2],
    [lhs |-> "assignment_statement", len |-> 4],
    [lhs |-> "assignment_statement", len |-> 5],
    [lhs |-> "assignment_statement", len |-> 5],
    [lhs |-> "if_statement", len |-> 7],
    [lhs |-> "if_statement", len |-> 9],
    [lhs |-> "if_statement", len |-> 8],
    [lhs |-> "if_statement", len |-> 8],
    [lhs |-> "if_statement", len |-> 3],
    [lhs |-> "if_statement", len |-> 1],
    [lhs |-> "if_statement", len |-> 2],
    [lhs |-> "if_statement", len |-> 1],
    [lhs |-> "elif_block", len |-> 8],
    [lhs |-> "elif_block", len |-> 7],
    [lhs |-> "elif_block", len |-> 6],
    [lhs |-> "else_block", len |-> 6],
    [lhs |-> "else_block", len |-> 3],
    [lhs |-> "while_statement", len |-> 7],
    [lhs |-> "while_statement", len |-> 6],
    [lhs |-> "while_statement", len |-> 3],
    [lhs |-> "break_statement", len |-> 2],
    [lhs |-> "expression", len |-> 3],
    [lhs |-> "expression", len |-> 3],
    [lhs |-> "expression", len |-> 3],
    [lhs |-> "expression", len |-> 3],
    [lhs |-> "expression", len |-> 3],
    [lhs |-> "expression", len |-> 3],
    [lhs |-> "expression", len |-> 3],
    [lhs |-> "expression", len |-> 3],
    [lhs |-> "expression", len |-> 3],
    [lhs |-> "expression", len |-> 3],
    [lhs |-> "expression", len |-> 3],
    [lhs |-> "expression", len |-> 1],
    [lhs |-> "expression", len |-> 1],
    [lhs |-> "expression", len |-> 1],
    [lhs |-> "expression", len |-> 2],
    [lhs |-> "expression", len |-> 1]>>

yyaction ==
  <<("error" :> 1 @@ "IDENTIFIER" :> 2 @@ "BREAK" :> 3 @@ "ELIF" :> 4 @@ "ELSE" :> 5 @@ "IF" :> 6 @@ "WHILE" :> 7 @@ "INDENT" :> 8),
    ("NEWLINE" :> 18),
    ("IDENTIFIER" :> 19 @@ "ASSIGN" :> 20),
    ("NEWLINE" :> 21),
    ("IDENTIFIER" :> 22 @@ "BOOLEAN" :> 23 @@ "INTEGER" :> 24 @@ "FLOAT" :> 25 @@ "LPAREN" :> 26),
    ("IDENTIFIER" :> 22 @@ "BOOLEAN" :> 23 @@ "INTEGER" :> 24 @@ "FLOAT" :> 25 @@ "COLON" :> 28 @@ "LPAREN" :> 26),
    ("IDENTIFIER" :> 22 @@ "BOOLEAN" :> 23 @@ "INTEGER" :> 24 @@ "FLOAT" :> 25 @@ "LPAREN" :> 26),
    ("IDENTIFIER" :> 22 @@ "BOOLEAN" :> 23 @@ "INTEGER" :> 24 @@ "FLOAT" :> 25 @@ "COLON" :> 31 @@ "LPAREN" :> 26),
    ("IDENTIFIER" :> 33),
    ("YYEOF" :> 34),
    ("YYEOF" :> -1 @@ "error" :> 1 @@ "IDENTIFIER" :> 2 @@ "BREAK" :> 3 @@ "ELIF" :> 4 @@ "ELSE" :> 5 @@ "IF" :> 6 @@ "WHILE" :> 7 @@ "INDENT" :> 8),
    NoRow,
    NoRow,
    NoRow,
    ("ELSE" :> 5 @@ "ELIF" :> 36 @@ "IF" :> 6),
    NoRow,
    NoRow,
    NoRow,
    NoRow,
    ("ASSIGN" :> 38),
    ("IDENTIFIER" :> 22 @@ "BOOLEAN" :> 23 @@ "INTEGER" :> 24 @@ "FLOAT" :> 25 @@ "LPAREN" :> 26),
    NoRow,
    NoRow,
    NoRow,
    NoRow,
    NoRow,
    ("IDENTIFIER" :> 22 @@ "BOOLEAN" :> 23 @@ "INTEGER" :> 24 @@ "FLOAT" :> 25 @@ "LPAREN" :> 26),
    ("IDENTIFIER" :> 22 @@ "BOOLEAN" :> 23 @@ "INTEGER" :> 24 @@ "FLOAT" :> 25 @@ "PLUS" :> 41 @@ "MINUS" :> 42 @@ "TIMES" :> 43 @@ "DIVIDEDBY" :> 44 @@ "EQ" :> 45 @@ "NEQ" :> 46 @@ "GT" :> 47 @@ "GTE" :> 48 @@ "LT" :> 49 @@ "LTE" :> 50 @@ "COLON" :> 51 @@ "LPAREN" :> 26 @@ "NEWLINE" :> 52),
    ("NEWLINE" :> 54),
    ("IDENTIFIER" :> 22 @@ "BOOLEAN" :> 23 @@ "INTEGER" :> 24 @@ "FLOAT" :> 25 @@ "PLUS" :> 41 @@ "MINUS" :> 42 @@ "TIMES" :> 43 @@ "DIVIDEDBY" :> 44 @@ "EQ" :> 45 @@ "NEQ" :> 46 @@ "GT" :> 47 @@ "GTE" :> 48 @@ "LT" :> 49 @@ "LTE" :> 50 @@ "LPAREN" :> 26 @@ "NEWLINE" :> 55),
    ("IDENTIFIER" :> 22 @@ "BOOLEAN" :> 23 @@ "INTEGER" :> 24 @@ "FLOAT" :> 25 @@ "PLUS" :> 41 @@ "MINUS" :> 42 @@ "TIMES" :> 43 @@ "DIVIDEDBY" :> 44 @@ "EQ" :> 45 @@ "NEQ" :> 46 @@ "GT" :> 47 @@ "GTE" :> 48 @@ "LT" :> 49 @@ "LTE" :> 50 @@ "COLON" :> 56 @@ "LPAREN" :> 26 @@ "NEWLINE" :> 57),
    ("NEWLINE" :> 58),
    ("IDENTIFIER" :> 22 @@ "BOOLEAN" :> 23 @@ "INTEGER" :> 24 @@ "FLOAT" :> 25 @@ "PLUS" :> 41 @@ "MINUS" :> 42 @@ "TIMES" :> 43 @@ "DIVIDEDBY" :> 44 @@ "EQ" :> 45 @@ "NEQ" :> 46 @@ "GT" :> 47 @@ "GTE" :> 48 @@ "LT" :> 49 @@ "LTE" :> 50 @@ "COLON" :> 59 @@ "LPAREN" :> 26 @@ "NEWLINE" :> 60),
    ("ASSIGN" :> 61),
    NoRow,
    NoRow,
    ("IDENTIFIER" :> 22 @@ "BOOLEAN" :> 23 @@ "INTEGER" :> 24 @@ "FLOAT" :> 25 @@ "LPAREN" :> 26),
    NoRow,
    ("IDENTIFIER" :> 22 @@ "BOOLEAN" :> 23 @@ "INTEGER" :> 24 @@ "FLOAT" :> 25 @@ "LPAREN" :> 26),
    ("IDENTIFIER" :> 22 @@ "BOOLEAN" :> 23 @@ "INTEGER" :> 24 @@ "FLOAT" :> 25 @@ "PLUS" :> 41 @@ "MINUS" :> 42 @@ "TIMES" :> 43 @@ "DIVIDEDBY" :> 44 @@ "EQ" :> 45 @@ "NEQ" :> 46 @@ "GT" :> 47 @@ "GTE" :> 48 @@ "LT" :> 49 @@ "LTE" :> 50 @@ "LPAREN" :> 26 @@ "NEWLINE" :> 64),
    ("IDENTIFIER" :> 22 @@ "BOOLEAN" :> 23 @@ "INTEGER" :> 24 @@ "FLOAT" :> 25 @@ "PLUS" :> 41 @@ "MINUS" :> 42 @@ "TIMES" :> 43 @@ "DIVIDEDBY" :> 44 @@ "EQ" :> 45 @@ "NEQ" :> 46 @@ "GT" :> 47 @@ "GTE" :> 48 @@ "LT" :> 49 @@ "LTE" :> 50 @@ "LPAREN" :> 26 @@ "RPAREN" :> 65),
    ("IDENTIFIER" :> 22 @@ "BOOLEAN" :> 23 @@ "INTEGER" :> 24 @@ "FLOAT" :> 25 @@ "LPAREN" :> 26),
    ("IDENTIFIER" :> 22 @@ "BOOLEAN" :> 23 @@ "INTEGER" :> 24 @@ "FLOAT" :> 25 @@ "LPAREN" :> 26),
    ("IDENTIFIER" :> 22 @@ "BOOLEAN" :> 23 @@ "INTEGER" :> 24 @@ "FLOAT" :> 25 @@ "LPAREN" :> 26),
    ("IDENTIFIER" :> 22 @@ "BOOLEAN" :> 23 @@ "INTEGER" :> 24 @@ "FLOAT" :> 25 @@ "LPAREN" :> 26),
    ("IDENTIFIER" :> 22 @@ "BOOLEAN" :> 23 @@ "INTEGER" :> 24 @@ "FLOAT" :> 25 @@ "LPAREN" :> 26),
    ("IDENTIFIER" :> 22 @@ "BOOLEAN" :> 23 @@ "INTEGER" :> 24 @@ "FLOAT" :> 25 @@ "LPAREN" :> 26),
    ("IDENTIFIER" :> 22 @@ "BOOLEAN" :> 23 @@ "INTEGER" :> 24 @@ "FLOAT" :> 25 @@ "LPAREN" :> 26),
    ("IDENTIFIER" :> 22 @@ "BOOLEAN" :> 23 @@ "INTEGER" :> 24 @@ "FLOAT" :> 25 @@ "LPAREN" :> 26),
    ("IDENTIFIER" :> 22 @@ "BOOLEAN" :> 23 @@ "INTEGER" :> 24 @@ "FLOAT" :> 25 @@ "LPAREN" :> 26),
    ("IDENTIFIER" :> 22 @@ "BOOLEAN" :> 23 @@ "INTEGER" :> 24 @@ "FLOAT" :> 25 @@ "LPAREN" :> 26),
    ("NEWLINE" :> 76),
    ("INDENT" :> 77),
    ("PLUS" :> 41 @@ "GT" :> 47 @@ "FLOAT" :> 25 @@ "LPAREN" :> 26 @@ "BOOLEAN" :> 23 @@ "INTEGER" :> 24 @@ "NEQ" :> 46 @@ "LTE" :> 50 @@ "DIVIDEDBY" :> 44 @@ "TIMES" :> 43 @@ "LT" :> 49 @@ "MINUS" :> 42 @@ "EQ" :> 45 @@ "IDENTIFIER" :> 22 @@ "GTE" :> 48),
    ("INDENT" :> 78),
    NoRow,
    ("NEWLINE" :> 79),
    NoRow,
    ("INDENT" :> 80),
    ("NEWLINE" :> 81),
    NoRow,
    ("IDENTIFIER" :> 22 @@ "BOOLEAN" :> 23 @@ "INTEGER" :> 24 @@ "FLOAT" :> 25 @@ "LPAREN" :> 26),
    ("IDENTIFIER" :> 22 @@ "BOOLEAN" :> 23 @@ "INTEGER" :> 24 @@ "FLOAT" :> 25 @@ "PLUS" :> 41 @@ "MINUS" :> 42 @@ "TIMES" :> 43 @@ "DIVIDEDBY" :> 44 @@ "EQ" :> 45 @@ "NEQ" :> 46 @@ "GT" :> 47 @@ "GTE" :> 48 @@ "LT" :> 49 @@ "LTE" :> 50 @@ "COLON" :> 83 @@ "LPAREN" :> 26 @@ "NEWLINE" :> 52),
    ("IDENTIFIER" :> 22 @@ "BOOLEAN" :> 23 @@ "INTEGER" :> 24 @@ "FLOAT" :> 25 @@ "PLUS" :> 41 @@ "MINUS" :> 42 @@ "TIMES" :> 43 @@ "DIVIDEDBY" :> 44 @@ "EQ" :> 45 @@ "NEQ" :> 46 @@ "GT" :> 47 @@ "GTE" :> 48 @@ "LT" :> 49 @@ "LTE" :> 50 @@ "LPAREN" :> 26 @@ "NEWLINE" :> 84),
    NoRow,
    NoRow,
    ("FLOAT" :> 25 @@ "LPAREN" :> 26 @@ "BOOLEAN" :> 23 @@ "INTEGER" :> 24 @@ "IDENTIFIER" :> 22 @@ "TIMES" :> 43 @@ "DIVIDEDBY" :> 44),
    ("FLOAT" :> 25 @@ "LPAREN" :> 26 @@ "BOOLEAN" :> 23 @@ "INTEGER" :> 24 @@ "IDENTIFIER" :> 22 @@ "TIMES" :> 43 @@ "DIVIDEDBY" :> 44),
    ("FLOAT" :> 25 @@ "LPAREN" :> 26 @@ "BOOLEAN" :> 23 @@ "INTEGER" :> 24 @@ "IDENTIFIER" :> 22),
    ("FLOAT" :> 25 @@ "LPAREN" :> 26 @@ "BOOLEAN" :> 23 @@ "INTEGER" :> 24 @@ "IDENTIFIER" :> 22),
    ("FLOAT" :> 25 @@ "LPAREN" :> 26 @@ "BOOLEAN" :> 23 @@ "INTEGER" :> 24 @@ "IDENTIFIER" :> 22 @@ "PLUS" :> 41 @@ "MINUS" :> 42 @@ "TIMES" :> 43 @@ "DIVIDEDBY" :> 44 @@ "GT" :> 47 @@ "GTE" :> 48 @@ "LT" :> 49 @@ "LTE" :> 50),
    ("FLOAT" :> 25 @@ "LPAREN" :> 26 @@ "BOOLEAN" :> 23 @@ "INTEGER" :> 24 @@ "IDENTIFIER" :> 22 @@ "PLUS" :> 41 @@ "MINUS" :> 42 @@ "TIMES" :> 43 @@ "DIVIDEDBY" :> 44 @@ "GT" :> 47 @@ "GTE" :> 48 @@ "LT" :> 49 @@ "LTE" :> 50),
    ("FLOAT" :> 25 @@ "LPAREN" :> 26 @@ "BOOLEAN" :> 23 @@ "INTEGER" :> 24 @@ "IDENTIFIER" :> 22 @@ "PLUS" :> 41 @@ "MINUS" :> 42 @@ "TIMES" :> 43 @@ "DIVIDEDBY" :> 44),
    ("FLOAT" :> 25 @@ "LPAREN" :> 26 @@ "BOOLEAN" :> 23 @@ "INTEGER" :> 24 @@ "IDENTIFIER" :> 22 @@ "PLUS" :> 41 @@ "MINUS" :> 42 @@ "TIMES" :> 43 @@ "DIVIDEDBY" :> 44),
    ("FLOAT" :> 25 @@ "LPAREN" :> 26 @@ "BOOLEAN" :> 23 @@ "INTEGER" :> 24 @@ "IDENTIFIER" :> 22 @@ "PLUS" :> 41 @@ "MINUS" :> 42 @@ "TIMES" :> 43 @@ "DIVIDEDBY" :> 44),
    ("FLOAT" :> 25 @@ "LPAREN" :> 26 @@ "BOOLEAN" :> 23 @@ "INTEGER" :> 24 @@ "IDENTIFIER" :> 22 @@ "PLUS" :> 41 @@ "MINUS" :> 42 @@ "TIMES" :> 43 @@ "DIVIDEDBY" :> 44),
    ("INDENT" :> 85),
    ("error" :> 1 @@ "IDENTIFIER" :> 2 @@ "BREAK" :> 3 @@ "ELIF" :> 4 @@ "ELSE" :> 5 @@ "IF" :> 6 @@ "WHILE" :> 7 @@ "INDENT" :> 8),
    ("error" :> 1 @@ "IDENTIFIER" :> 2 @@ "BREAK" :> 3 @@ "ELIF" :> 4 @@ "ELSE" :> 5 @@ "IF" :> 6 @@ "WHILE" :> 7 @@ "INDENT" :> 8),
    ("INDENT" :> 88),
    ("error" :> 1 @@ "IDENTIFIER" :> 2 @@ "BREAK" :> 3 @@ "ELIF" :> 4 @@ "ELSE" :> 5 @@ "IF" :> 6 @@ "WHILE" :> 7 @@ "INDENT" :> 8),
    ("INDENT" :> 90),
    ("IDENTIFIER" :> 22 @@ "BOOLEAN" :> 23 @@ "INTEGER" :> 24 @@ "FLOAT" :> 25 @@ "PLUS" :> 41 @@ "MINUS" :> 42 @@ "TIMES" :> 43 @@ "DIVIDEDBY" :> 44 @@ "EQ" :> 45 @@ "NEQ" :> 46 @@ "GT" :> 47 @@ "GTE" :> 48 @@ "LT" :> 49 @@ "LTE" :> 50 @@ "LPAREN" :> 26 @@ "NEWLINE" :> 91),
    ("NEWLINE" :> 92),
    NoRow,
    ("error" :> 1 @@ "IDENTIFIER" :> 2 @@ "BREAK" :> 3 @@ "ELIF" :> 4 @@ "ELSE" :> 5 @@ "IF" :> 6 @@ "WHILE" :> 7 @@ "INDENT" :> 8),
    ("error" :> 1 @@ "IDENTIFIER" :> 2 @@ "BREAK" :> 3 @@ "ELIF" :> 4 @@ "ELSE" :> 5 @@ "IF" :> 6 @@ "WHILE" :> 7 @@ "INDENT" :> 8 @@ "DEDENT" :> 94),
    ("error" :> 1 @@ "IDENTIFIER" :> 2 @@ "BREAK" :> 3 @@ "ELIF" :> 4 @@ "ELSE" :> 5 @@ "IF" :> 6 @@ "WHILE" :> 7 @@ "INDENT" :> 8 @@ "DEDENT" :> 95),
    ("error" :> 1 @@ "IDENTIFIER" :> 2 @@ "BREAK" :> 3 @@ "ELIF" :> 4 @@ "ELSE" :> 5 @@ "IF" :> 6 @@ "WHILE" :> 7 @@ "INDENT" :> 8),
    ("error" :> 1 @@ "IDENTIFIER" :> 2 @@ "BREAK" :> 3 @@ "ELIF" :> 4 @@ "ELSE" :> 5 @@ "IF" :> 6 @@ "WHILE" :> 7 @@ "INDENT" :> 8 @@ "DEDENT" :> 97),
    ("error" :> 1 @@ "IDENTIFIER" :> 2 @@ "BREAK" :> 3 @@ "ELIF" :> 4 @@ "ELSE" :> 5 @@ "IF" :> 6 @@ "WHILE" :> 7 @@ "INDENT" :> 8),
    NoRow,
    ("INDENT" :> 99),
    ("error" :> 1 @@ "IDENTIFIER" :> 2 @@ "BREAK" :> 3 @@ "ELIF" :> 4 @@ "ELSE" :> 5 @@ "IF" :> 6 @@ "WHILE" :> 7 @@ "INDENT" :> 8 @@ "DEDENT" :> 100),
    NoRow,
    NoRow,
    ("error" :> 1 @@ "IDENTIFIER" :> 2 @@ "BREAK" :> 3 @@ "ELIF" :> 4 @@ "ELSE" :> 5 @@ "IF" :> 6 @@ "WHILE" :> 7 @@ "INDENT" :> 8 @@ "DEDENT" :> 101),
    NoRow,
    ("error" :> 1 @@ "IDENTIFIER" :> 2 @@ "BREAK" :> 3 @@ "ELIF" :> 4 @@ "ELSE" :> 5 @@ "IF" :> 6 @@ "WHILE" :> 7 @@ "INDENT" :> 8 @@ "DEDENT" :> 102),
    ("error" :> 1 @@ "IDENTIFIER" :> 2 @@ "BREAK" :> 3 @@ "ELIF" :> 4 @@ "ELSE" :> 5 @@ "IF" :> 6 @@ "WHILE" :> 7 @@ "INDENT" :> 8),
    NoRow,
    ("ELIF" :> 4 @@ "ELSE" :> 5),
    NoRow,
    ("error" :> 1 @@ "IDENTIFIER" :> 2 @@ "BREAK" :> 3 @@ "ELIF" :> 4 @@ "ELSE" :> 5 @@ "IF" :> 6 @@ "WHILE" :> 7 @@ "INDENT" :> 8 @@ "DEDENT" :> 106),
    ("ELIF" :> 107 @@ "ELSE" :> 5),
    NoRow,
    NoRow,
    ("IDENTIFIER" :> 22 @@ "BOOLEAN" :> 23 @@ "INTEGER" :> 24 @@ "FLOAT" :> 25 @@ "LPAREN" :> 26),
    NoRow,
    ("IDENTIFIER" :> 22 @@ "BOOLEAN" :> 23 @@ "INTEGER" :> 24 @@ "FLOAT" :> 25 @@ "PLUS" :> 41 @@ "MINUS" :> 42 @@ "TIMES" :> 43 @@ "DIVIDEDBY" :> 44 @@ "EQ" :> 45 @@ "NEQ" :> 46 @@ "GT" :> 47 @@ "GTE" :> 48 @@ "LT" :> 49 @@ "LTE" :> 50 @@ "COLON" :> 110 @@ "LPAREN" :> 26),
    ("NEWLINE" :> 111),
    ("INDENT" :> 112),
    ("error" :> 1 @@ "IDENTIFIER" :> 2 @@ "BREAK" :> 3 @@ "ELIF" :> 4 @@ "ELSE" :> 5 @@ "IF" :> 6 @@ "WHILE" :> 7 @@ "INDENT" :> 8),
    ("error" :> 1 @@ "IDENTIFIER" :> 2 @@ "BREAK" :> 3 @@ "ELIF" :> 4 @@ "ELSE" :> 5 @@ "IF" :> 6 @@ "WHILE" :> 7 @@ "INDENT" :> 8 @@ "DEDENT" :> 114),
    NoRow>>

yydefact ==
  <<0, 0, 0, 0, 0, 0, 0, 0, 0, 0, 0, 3, 4, 5, 17, 19, 6, 7, 8, 0, 0, 28, 44, 42, 40, 41, 0, 0, 0, 0, 0, 0, 0, 0, 0, 2, 0, 18, 0, 0, 0, 0, 0, 0, 0, 0, 0, 0, 0, 0, 0, 0, 0, 43, 0, 24, 0, 16, 0, 0, 27, 0, 0, 0, 9, 29, 30, 31, 32, 33, 34, 35, 36, 37, 38, 39, 0, 0, 0, 0, 0, 0, 0, 0, 10, 0, 0, 0, 0, 0, 0, 11, 0, 0, 22, 23, 0, 26, 0, 0, 21, 12, 25, 0, 14, 15, 20, 0, 13, 0, 0, 0, 0, 0, 20>>

yygoto ==
  <<("program" :> 9 @@ "statement_list" :> 10 @@ "statement" :> 11 @@ "assignment_statement" :> 12 @@ "if_statement" :> 13 @@ "elif_block" :> 14 @@ "else_block" :> 15 @@ "while_statement" :> 16 @@ "break_statement" :> 17),
    NoRow,
    NoRow,
    NoRow,
    ("expression" :> 27),
    ("expression" :> 29),
    ("expression" :> 30),
    ("expression" :> 32),
    NoRow,
    NoRow,
    ("statement" :> 35 @@ "assignment_statement" :> 12 @@ "if_statement" :> 13 @@ "elif_block" :> 14 @@ "else_block" :> 15 @@ "while_statement" :> 16 @@ "break_statement" :> 17),
    NoRow,
    NoRow,
    NoRow,
    ("if_statement" :> 37 @@ "elif_block" :> 14 @@ "else_block" :> 15),
    NoRow,
    NoRow,
    NoRow,
    NoRow,
    NoRow,
    ("expression" :> 39),
    NoRow,
    NoRow,
    NoRow,
    NoRow,
    NoRow,
    ("expression" :> 40),
    ("expression" :> 53),
    NoRow,
    ("expression" :> 53),
    ("expression" :> 53),
    NoRow,
    ("expression" :> 53),
    NoRow,
    NoRow,
    NoRow,
    ("expression" :> 62),
    NoRow,
    ("expression" :> 63),
    ("expression" :> 53),
    ("expression" :> 53),
    ("expression" :> 66),
    ("expression" :> 67),
    ("expression" :> 68),
    ("expression" :> 69),
    ("expression" :> 70),
    ("expression" :> 71),
    ("expression" :> 72),
    ("expression" :> 73),
    ("expression" :> 74),
    ("expression" :> 75),
    NoRow,
    NoRow,
    ("expression" :> 53),
    NoRow,
    NoRow,
    NoRow,
    NoRow,
    NoRow,
    NoRow,
    NoRow,
    ("expression" :> 82),
    ("expression" :> 53),
    ("expression" :> 53),
    NoRow,
    NoRow,
    ("expression" :> 53),
    ("expression" :> 53),
    ("expression" :> 53),
    ("expression" :> 53),
    ("expression" :> 53),
    ("expression" :> 53),
    ("expression" :> 53),
    ("expression" :> 53),
    ("expression" :> 53),
    ("expression" :> 53),
    NoRow,
    ("statement_list" :> 86 @@ "statement" :> 11 @@ "assignment_statement" :> 12 @@ "if_statement" :> 13 @@ "elif_block" :> 14 @@ "else_block" :> 15 @@ "while_statement" :> 16 @@ "break_statement" :> 17),
    ("statement_list" :> 87 @@ "statement" :> 11 @@ "assignment_statement" :> 12 @@ "if_statement" :> 13 @@ "elif_block" :> 14 @@ "else_block" :> 15 @@ "while_statement" :> 16 @@ "break_statement" :> 17),
    NoRow,
    ("statement_list" :> 89 @@ "statement" :> 11 @@ "assignment_statement" :> 12 @@ "if_statement" :> 13 @@ "elif_block" :> 14 @@ "else_block" :> 15 @@ "while_statement" :> 16 @@ "break_statement" :> 17),
    NoRow,
    ("expression" :> 53),
    NoRow,
    NoRow,
    ("statement_list" :> 93 @@ "statement" :> 11 @@ "assignment_statement" :> 12 @@ "if_statement" :> 13 @@ "elif_block" :> 14 @@ "else_block" :> 15 @@ "while_statement" :> 16 @@ "break_statement" :> 17),
    ("statement" :> 35 @@ "assignment_statement" :> 12 @@ "if_statement" :> 13 @@ "elif_block" :> 14 @@ "else_block" :> 15 @@ "while_statement" :> 16 @@ "break_statement" :> 17),
    ("statement" :> 35 @@ "assignment_statement" :> 12 @@ "if_statement" :> 13 @@ "elif_block" :> 14 @@ "else_block" :> 15 @@ "while_statement" :> 16 @@ "break_statement" :> 17),
    ("statement_list" :> 96 @@ "statement" :> 11 @@ "assignment_statement" :> 12 @@ "if_statement" :> 13 @@ "elif_block" :> 14 @@ "else_block" :> 15 @@ "while_statement" :> 16 @@ "break_statement" :> 17),
    ("statement" :> 35 @@ "assignment_statement" :> 12 @@ "if_statement" :> 13 @@ "elif_block" :> 14 @@ "else_block" :> 15 @@ "while_statement" :> 16 @@ "break_statement" :> 17),
    ("statement_list" :> 98 @@ "statement" :> 11 @@ "assignment_statement" :> 12 @@ "if_statement" :> 13 @@ "elif_block" :> 14 @@ "else_block" :> 15 @@ "while_statement" :> 16 @@ "break_statement" :> 17),
    NoRow,
    NoRow,
    ("statement" :> 35 @@ "assignment_statement" :> 12 @@ "if_statement" :> 13 @@ "elif_block" :> 14 @@ "else_block" :> 15 @@ "while_statement" :> 16 @@ "break_statement" :> 17),
    NoRow,
    NoRow,
    ("statement" :> 35 @@ "assignment_statement" :> 12 @@ "if_statement" :> 13 @@ "elif_block" :> 14 @@ "else_block" :> 15 @@ "while_statement" :> 16 @@ "break_statement" :> 17),
    NoRow,
    ("statement" :> 35 @@ "assignment_statement" :> 12 @@ "if_statement" :> 13 @@ "elif_block" :> 14 @@ "else_block" :> 15 @@ "while_statement" :> 16 @@ "break_statement" :> 17),
    ("statement_list" :> 103 @@ "statement" :> 11 @@ "assignment_statement" :> 12 @@ "if_statement" :> 13 @@ "elif_block" :> 14 @@ "else_block" :> 15 @@ "while_statement" :> 16 @@ "break_statement" :> 17),
    NoRow,
    ("elif_block" :> 104 @@ "else_block" :> 105),
    NoRow,
    ("statement" :> 35 @@ "assignment_statement" :> 12 @@ "if_statement" :> 13 @@ "elif_block" :> 14 @@ "else_block" :> 15 @@ "while_statement" :> 16 @@ "break_statement" :> 17),
    ("else_block" :> 108),
    NoRow,
    NoRow,
    ("expression" :> 109),
    NoRow,
    ("expression" :> 53),
    NoRow,
    NoRow,
    ("statement_list" :> 113 @@ "statement" :> 11 @@ "assignment_statement" :> 12 @@ "if_statement" :> 13 @@ "elif_block" :> 14 @@ "else_block" :> 15 @@ "while_statement" :> 16 @@ "break_statement" :> 17),
    ("statement" :> 35 @@ "assignment_statement" :> 12 @@ "if_statement" :> 13 @@ "elif_block" :> 14 @@ "else_block" :> 15 @@ "while_statement" :> 16 @@ "break_statement" :> 17),
    NoRow>>

(***************************************************************************)
(* parser.y: semantic values (%union, lines 39-43).  A YYSTYPE is           *)
(*   [str |-> text, at |-> a]  a char* to the string in heap block a,      *)
(*   [num |-> n]               a float, in hundredths,                     *)
(*   [category |-> c]          an int,                                     *)
(* or NOVAL, a value nothing has written yet.  Read through .str, a value  *)
(* that is not a string is a pointer to nothing the program owns.          *)
(***************************************************************************)

NOVAL == [none |-> TRUE]

IsStr(v) == "str" \in DOMAIN v

\* What a read through a pointer that is no string yields, when it yields.
Junk == "<?>"

StrOf(v) == IF IsStr(v) THEN v.str ELSE Junk

Digit == <<"0", "1", "2", "3", "4", "5", "6", "7", "8", "9">>

\* "%d"
RECURSIVE itoa(_)
itoa(n) == IF n < 10 THEN Digit[n + 1] ELSE itoa(n \div 10) \o Digit[(n % 10) + 1]

\* "%g" of a float given in hundredths: no trailing zeros, no bare point.
fmt_g(num) ==
  IF num % 100 = 0 THEN itoa(num \div 100)
  ELSE IF num % 10 = 0 THEN itoa(num \div 100) \o "." \o Digit[((num % 100) \div 10) + 1]
  ELSE itoa(num \div 100) \o "." \o Digit[((num % 100) \div 10) + 1] \o Digit[(num % 10) + 1]

\* "%.1f" of a float given in hundredths.
fmt_1f(num) ==
  LET tenths == (num + 5) \div 10
  IN  itoa(tenths \div 10) \o "." \o Digit[(tenths % 10) + 1]

\* fprintf(stderr, "Error: %s on line %d\n", err_message, loc.first_line)
line_diag_bare(err_message, first_line) == "Error: " \o err_message \o "\n"

line_diag(err_message, first_line) ==
  "Error: " \o err_message \o " on line " \o itoa(first_line) \o "\n"

\* yyerror: fprintf(stderr, "Error: %s\n", err).  bison's message is "syntax
\* error, unexpected <token>", followed under parse.error verbose by the
\* tokens it expected, which the model leaves out.
yyerror(yychar_name) == "Error: syntax error, unexpected " \o yychar_name \o "\n"

(***************************************************************************)
(* parser.y: the grammar actions.  rhs is the sequence of the rule's       *)
(* right-hand side stack entries [state, val, line]; the result is         *)
(*   val: $$ (bison presets $$ = $1 before every action),                  *)
(*   yyerror: the action ended in YYERROR,                                 *)
(*   diag: what it wrote to stderr,  err: _error after it,                 *)
(*   mem: the heap and table after it,                                     *)
(*   ub: it read a string through a value that is none.                    *)
(***************************************************************************)

sem(val, ub, mem, err) ==
  [val |-> val, yyerror |-> FALSE, diag |-> <<>>, err |-> err, mem |-> mem, ub |-> ub]

text(s, at) == [str |-> s, at |-> at]

\* PARSE_ERROR(err_message, loc)
PARSE_ERROR(err_message, loc, rhs, mem, err) ==
  [val |-> rhs[1].val, yyerror |-> TRUE,
   diag |-> <<line_diag(err_message, loc.line)>>, err |-> 1, mem |-> mem, ub |-> FALSE]

\* expression: IDENTIFIER
identifier_reference_quiet(rhs, mem, err, at) ==
  sem(IF hash_contains(mem.h, rhs[1].val.str) = 1 THEN text(rhs[1].val.str, at) ELSE rhs[1].val,
      FALSE, mem, err)

\* The same action ending in YYERROR when the identifier is unknown.
identifier_reference_abort(rhs, mem, err, at) ==
  IF hash_contains(mem.h, rhs[1].val.str) = 1
  THEN sem(text(rhs[1].val.str, at), FALSE, mem, err)
  ELSE [val |-> rhs[1].val, yyerror |-> TRUE,
        diag |-> <<"Error: Invalid Symbol (" \o rhs[1].val.str \o ") on line "
                   \o itoa(rhs[1].line) \o "\n">>,
        err |-> 1, mem |-> mem, ub |-> FALSE]

identifier_reference(rhs, mem, err, at) ==
  IF hash_contains(mem.h, rhs[1].val.str) = 1
  THEN sem(text(rhs[1].val.str, at), FALSE, mem, err)
  ELSE [val |-> rhs[1].val, yyerror |-> FALSE,
        diag |-> <<"Error: Invalid Symbol (" \o rhs[1].val.str \o ") on line "
                   \o itoa(rhs[1].line) \o "\n">>,
        err |-> 1, mem |-> mem, ub |-> FALSE]

\* assignment_statement: IDENTIFIER ASSIGN expression NEWLINE
assignment_statement(rhs, mem, err, at) ==
  sem(text(rhs[1].val.str \o " = " \o StrOf(rhs[3].val) \o ";\n", at),
      ~IsStr(rhs[3].val),
      hash_insert(mem, rhs[1].val.str, rhs[3].val), err)

\* statement_list: statement_list statement
statement_list_drop(rhs, mem, err, at) ==
  sem(text(StrOf(rhs[2].val), at), ~IsStr(rhs[2].val), mem, err)

statement_list_append(rhs, mem, err, at) ==
  sem(text(StrOf(rhs[1].val) \o StrOf(rhs[2].val), at),
      ~IsStr(rhs[1].val) \/ ~IsStr(rhs[2].val), mem, err)

\* statement: error NEWLINE
error_statement_clear(rhs, mem, err) == sem(rhs[1].val, FALSE, mem, 0)

error_statement(rhs, mem, err) == sem(rhs[1].val, FALSE, mem, err)

binary(op, rhs, mem, err, at) ==
  sem(text(StrOf(rhs[1].val) \o " " \o op \o " " \o StrOf(rhs[3].val), at),
      ~IsStr(rhs[1].val) \/ ~IsStr(rhs[3].val), mem, err)

yyaction_of(n, rhs, mem, err, at) ==
  CASE n = 1 ->
         sem(rhs[1].val, FALSE, hash_insert(mem, "program", rhs[1].val), err)
    [] n = 2 -> statement_list_append(rhs, mem, err, at)
    [] n \in {3, 4, 5, 6, 7} -> sem(rhs[1].val, FALSE, mem, err)
    [] n = 8 -> error_statement(rhs, mem, err)
    [] n = 9 -> assignment_statement(rhs, mem, err, at)
    [] n = 10 -> PARSE_ERROR("Invalid assignment statement", rhs[1], rhs, mem, err)
    [] n = 11 -> PARSE_ERROR("Invalid indentation", rhs[1], rhs, mem, err)
    [] n = 12 ->
         sem(text("if (" \o StrOf(rhs[2].val) \o ") {\n" \o StrOf(rhs[6].val) \o "}\n", at),
             ~IsStr(rhs[2].val) \/ ~IsStr(rhs[6].val), mem, err)
    [] n = 13 ->
         sem(text("if (" \o StrOf(rhs[2].val) \o ") {\n" \o StrOf(rhs[6].val) \o "} "
                  \o StrOf(rhs[8].val) \o " " \o StrOf(rhs[9].val), at),
             \E p \in {2, 6, 8, 9} : ~IsStr(rhs[p].val), mem, err)
    [] n \in {14, 15} ->
         sem(text("if (" \o StrOf(rhs[2].val) \o ") {\n" \o StrOf(rhs[6].val) \o "} "
                  \o StrOf(rhs[8].val), at),
             \E p \in {2, 6, 8} : ~IsStr(rhs[p].val), mem, err)
    [] n = 16 -> PARSE_ERROR("Missing colon after 'if' statement", rhs[1], rhs, mem, err)
    [] n \in {17, 18} -> PARSE_ERROR("Unexpected 'elif' statement", rhs[1], rhs, mem, err)
    [] n = 19 -> PARSE_ERROR("Unexpected 'else' statement", rhs[1], rhs, mem, err)
    [] n = 20 ->
         sem(text(StrOf(rhs[1].val) \o " else if (" \o StrOf(rhs[3].val) \o ") {\n"
                  \o StrOf(rhs[7].val) \o "}", at),
             \E p \in {1, 3, 7} : ~IsStr(rhs[p].val), mem, err)
    [] n = 21 ->
         sem(text("else if (" \o StrOf(rhs[2].val) \o ") {\n" \o StrOf(rhs[6].val) \o "}", at),
             \E p \in {2, 6} : ~IsStr(rhs[p].val), mem, err)
    [] n = 22 -> PARSE_ERROR("Missing colon after 'elif' statement", rhs[1], rhs, mem, err)
    [] n = 23 ->
         sem(text("else {\n" \o StrOf(rhs[5].val) \o "}\n", at), ~IsStr(rhs[5].val), mem, err)
    [] n = 24 -> PARSE_ERROR("Missing colon after 'else' statement", rhs[1], rhs, mem, err)
    [] n = 25 ->
         sem(text("while (" \o StrOf(rhs[2].val) \o ") {\n" \o StrOf(rhs[6].val) \o "}\n", at),
             ~IsStr(rhs[2].val) \/ ~IsStr(rhs[6].val), mem, err)
    [] n = 26 ->
         PARSE_ERROR("Missing expression for 'while' statement", rhs[1], rhs, mem, err)
    [] n = 27 -> PARSE_ERROR("Missing colon after 'while' statement", rhs[1], rhs, mem, err)
    [] n = 28 -> sem(text("break;\n", at), FALSE, mem, err)
    [] n = 29 -> sem(text("(" \o StrOf(rhs[2].val) \o ")", at), ~IsStr(rhs[2].val), mem, err)
    [] n = 30 -> binary("+", rhs, mem, err, at)
    [] n = 31 -> binary("-", rhs, mem, err, at)
    [] n = 32 -> binary("*", rhs, mem, err, at)
    [] n = 33 -> binary("/", rhs, mem, err, at)
    [] n = 34 -> binary("==", rhs, mem, err, at)
    [] n = 35 -> binary("!=", rhs, mem, err, at)
    [] n = 36 -> binary(">", rhs, mem, err, at)
    [] n = 37 -> binary(">=", rhs, mem, err, at)
    [] n = 38 -> binary("<", rhs, mem, err, at)
    [] n = 39 -> binary("<=", rhs, mem, err, at)
    [] n = 40 -> sem(text(fmt_g(rhs[1].val.num), at), FALSE, mem, err)
    [] n = 41 ->
         sem(text(IF rhs[1].val.num % 100 = 0 THEN fmt_1f(rhs[1].val.num)
                  ELSE fmt_g(rhs[1].val.num), at), FALSE, mem, err)
    [] n = 42 -> sem(text(IF rhs[1].val.str = "True" THEN "1" ELSE "0", at), FALSE, mem, err)
    [] n = 43 -> sem(rhs[1].val, FALSE, mem, err)
    [] n = 44 -> identifier_reference(rhs, mem, err, at)

(***************************************************************************)
(* The token source.  The scanner is not part of parser.y; it is taken     *)
(* from the input contract: one token per word, each with its category,    *)
(* its payload in the member of the union that parser.y:48-58 declares for *)
(* the category, and its line; INDENT and DEDENT where the indentation     *)
(* level changes, NEWLINE after every line, and at the end of the input a  *)
(* DEDENT for every open level and then the end token.                     *)
(***************************************************************************)

Keyword ==
  ("break" :> "BREAK" @@ "elif" :> "ELIF" @@ "else" :> "ELSE" @@ "if" :> "IF"
   @@ "while" :> "WHILE")

Punct ==
  ("=" :> "ASSIGN" @@ "+" :> "PLUS" @@ "-" :> "MINUS" @@ ">" :> "GT" @@ ":" :> "COLON")

\* The literals of the inputs, in hundredths.
Number ==
  ("1" :> 100 @@ "2" :> 200 @@ "3" :> 300 @@ "4" :> 400 @@ "5" :> 500 @@ "6" :> 600
   @@ "2.5" :> 250 @@ "5.0" :> 500)

\* The literals spelled with a decimal point.
FloatLiteral == {"2.5", "5.0"}

Boolean == {"True", "False"}

token(cat, val, line) == [cat |-> cat, val |-> val, line |-> line]

Word(w, line, col) ==
  IF w \in DOMAIN Keyword
  THEN token(Keyword[w], [str |-> w, at |-> 0 - (10 * line + col)], line)
  ELSE IF w \in DOMAIN Punct
  THEN token(Punct[w], [category |-> Punct[w]], line)
  ELSE IF w \in DOMAIN Number
  THEN token(IF w \in FloatLiteral THEN "FLOAT" ELSE "INTEGER", [num |-> Number[w]], line)
  ELSE IF w \in Boolean
  THEN token("BOOLEAN", [str |-> w, at |-> 0 - (10 * line + col)], line)
  ELSE token("IDENTIFIER", [str |-> w, at |-> 0 - (10 * line + col)], line)

Layout(from, to, line) ==
  IF to > from
  THEN <<token("INDENT", [category |-> "INDENT"], line)>>
  ELSE [p \in 1 .. from - to |-> token("DEDENT", [category |-> "DEDENT"], line)]

LineTokens(l, from, line) ==
  Layout(from, l.level, line)
    \o [col \in 1 .. Len(l.words) |-> Word(l.words[col], line, col)]
    \o <<token("NEWLINE", [category |-> "NEWLINE"], line)>>

EofTokens(from, line) ==
  Layout(from, 0, line) \o <<token("YYEOF", [category |-> "YYEOF"], line)>>

L(words, level) == [words |-> words, level |-> level]

\* Inputs made of assignments, if/elif/else chains, while loops and break, with
\* every identifier assigned before it is referenced.
Programs ==
  [six_vars |->
     <<L(<<"a", "=", "1">>, 0), L(<<"b", "=", "2">>, 0), L(<<"c", "=", "3">>, 0),
       L(<<"d", "=", "4">>, 0), L(<<"e", "=", "5">>, 0), L(<<"f", "=", "6">>, 0)>>,
   if_else |->
     <<L(<<"x", "=", "5">>, 0), L(<<"if", "x", ">", "5", ":">>, 0),
       L(<<"y", "=", "x", "+", "2.5">>, 1), L(<<"else", ":">>, 0),
       L(<<"y", "=", "1">>, 1), L(<<"x", "=", "y">>, 0)>>,
   elif_chain |->
     <<L(<<"x", "=", "5">>, 0), L(<<"if", "x", ">", "5", ":">>, 0),
       L(<<"x", "=", "1">>, 1), L(<<"elif", "x", ":">>, 0), L(<<"x", "=", "2">>, 1),
       L(<<"else", ":">>, 0), L(<<"x", "=", "3">>, 1)>>,
   while_loop |->
     <<L(<<"x", "=", "5">>, 0), L(<<"while", "x", ":">>, 0),
       L(<<"x", "=", "x", "-", "1">>, 1), L(<<"break">>, 1)>>,
   literals |->
     <<L(<<"x", "=", "5">>, 0), L(<<"y", "=", "5.0">>, 0), L(<<"x", "=", "2.5">>, 0),
       L(<<"y", "=", "True">>, 0), L(<<"x", "=", "False">>, 0)>>]

\* The lines a run on any input draws from.
FreeLines ==
  {<<"x", "=", "5">>, <<"x", "=", "y">>, <<"if", "x", ">", "5", ":">>,
   <<"if", "x", ">", "5">>, <<"while", "x", ":">>, <<"break">>, <<"break", "x">>,
   <<"x", "y", "=", "5">>}

(***************************************************************************)
(* State.                                                                  *)
(***************************************************************************)

VARIABLES
  symbols,   \* the struct hash
  freed,     \* value pointers the table has passed to free()
  dblfree,   \* a value pointer was passed to free() twice
  calls,     \* the calls made on the table so far, oldest first
  pc,        \* where the run is: "lex", "backup", "errlab1", "accepted",
             \* "aborted", "exit"
  yyss,      \* the parser stack, entries [state, val, line], bottom first
  yychar,    \* the lookahead token, "YYEMPTY" when there is none
  yylval,    \* the value of the token last pushed
  yylloc,    \* its line
  yyerrstatus, \* tokens still to shift before bison reports errors again
  _error,    \* the failure flag
  stderr,    \* the diagnostics written, oldest first
  stdout,    \* the printf outputs of main, oldest first
  status,    \* the exit status, -1 while the run lasts
  nalloc,    \* heap blocks the grammar actions have allocated
  prog,      \* the input of the run: a name of Programs, "any" or "brief"
  src,       \* the lines of prog the scanner has still to read
  lines,     \* the lines the scanner has read, entries [words, level]
  tokens,    \* the tokens of the line read that are still to push
  indent,    \* the indentation level of the line read
  eof,       \* the scanner has met the end of the input
  assigned,  \* the assignment statements reduced: [key, text, value, line]
  recovered, \* how often the parser has entered error recovery
  iters      \* the table iterators main has created and not freed

hvars == <<symbols, freed, dblfree>>
pvars == <<pc, yyss, yychar, yylval, yylloc, yyerrstatus, _error, stderr, stdout,
           status, nalloc, prog, src, lines, tokens, indent, eof, assigned, recovered,
           iters>>
vars == <<symbols, freed, dblfree, calls, pc, yyss, yychar, yylval, yylloc,
          yyerrstatus, _error, stderr, stdout, status, nalloc, prog, src, lines,
          tokens, indent, eof, assigned, recovered, iters>>

mem_now == [h |-> symbols, freed |-> freed, dblfree |-> dblfree]

\* main before yylex: symbols = hash_create(); pstate = yypstate_new().
ParserStart ==
  /\ symbols = hash_create
  /\ freed = {}
  /\ dblfree = FALSE
  /\ pc = "lex"
  /\ yyss = <<[state |-> 0, val |-> NOVAL, line |-> 0]>>
  /\ yychar = "YYEMPTY"
  /\ yylval = NOVAL
  /\ yylloc = 0
  /\ yyerrstatus = 0
  /\ _error = 0
  /\ stderr = <<>>
  /\ stdout = <<>>
  /\ status = -1
  /\ nalloc = 0
  /\ lines = <<>>
  /\ tokens = <<>>
  /\ indent = 0
  /\ eof = FALSE
  /\ assigned = <<>>
  /\ recovered = 0
  /\ iters = 0

(***************************************************************************)
(* The table driven directly: any run of hash_insert and hash_remove calls *)
(* on a fresh table.  New keys are taken in the order of HashKeys; a call  *)
(* may also name one of the keys already used.  Each insert passes a fresh *)
(* pointer, as the parser does.                                            *)
(***************************************************************************)

HashKeys == <<"a", "b", "c", "d", "e", "f", "g", "h", "i", "j", "k", "l", "m", "n">>

\* The keys a call may name again.
DupKeys == {"a", "b"}

UsedKeys == {calls[p].key : p \in 1 .. Len(calls)}

NDup == Cardinality({p \in 1 .. Len(calls) : calls[p].dup})

NextKey == HashKeys[Cardinality(UsedKeys) + 1]

HashInit ==
  /\ ParserStart
  /\ calls = <<>>
  /\ prog = "none"
  /\ src = <<>>

DoInsert(key, dup) ==
  LET value == [ptr |-> Len(calls) + 1]
      m == hash_insert(mem_now, key, value)
  IN  /\ symbols' = m.h
      /\ freed' = m.freed
      /\ dblfree' = m.dblfree
      /\ calls' = Append(calls, [op |-> "insert", key |-> key, value |-> value,
                                 dup |-> dup, before |-> symbols])
      /\ UNCHANGED pvars

HashInsertNew ==
  /\ Len(calls) < MaxOps
  /\ Cardinality(UsedKeys) < Len(HashKeys)
  /\ DoInsert(NextKey, FALSE)

HashInsertAgain ==
  /\ Len(calls) < MaxOps
  /\ NDup < MaxDup
  /\ \E key \in DupKeys \cap UsedKeys : DoInsert(key, TRUE)

HashRemove ==
  /\ Len(calls) < MaxOps
  /\ NDup < MaxDup
  /\ \E key \in DupKeys \cap UsedKeys :
       LET m == hash_remove(mem_now, key)
       IN  /\ symbols' = m.h
           /\ freed' = m.freed
           /\ dblfree' = m.dblfree
           /\ calls' = Append(calls, [op |-> "remove", key |-> key, value |-> NULL,
                                      dup |-> TRUE, before |-> symbols])
           /\ UNCHANGED pvars

HashNext == HashInsertNew \/ HashInsertAgain \/ HashRemove

SpecHash == HashInit /\ [][HashNext]_vars

(***************************************************************************)
(* The translator: main (parser.y:172-217) starts the scanner, which       *)
(* pushes one token at a time into the push parser bison generates from    *)
(* the grammar (%define api.push-pull push, parser.y:46).                  *)
(***************************************************************************)

Init ==
  /\ ParserStart
  /\ calls = <<>>
  /\ prog \in DOMAIN Programs \cup {"any"}
  /\ src = IF prog = "any" THEN <<>> ELSE Programs[prog]

\* The lines a run may draw: MaxLines on any input, MaxLiveLines on a brief one.
free_lines == IF prog = "any" THEN MaxLines ELSE IF prog = "brief" THEN MaxLiveLines ELSE 0

NextLines ==
  IF src # <<>> THEN {Head(src)}
  ELSE IF Len(lines) < free_lines
  THEN {L(words, level) : words \in FreeLines,
                           level \in 0 .. IF indent < MaxLevel THEN indent + 1 ELSE MaxLevel}
  ELSE {}

\* The scanner reads the next line of the input.
yylex_line ==
  /\ pc = "lex"
  /\ tokens = <<>>
  /\ ~eof
  /\ \E l \in NextLines :
       /\ lines' = Append(lines, l)
       /\ tokens' = LineTokens(l, indent, Len(lines) + 1)
       /\ indent' = l.level
  /\ src' = IF src = <<>> THEN src ELSE Tail(src)
  /\ UNCHANGED <<symbols, freed, dblfree, calls, pc, yyss, yychar, yylval, yylloc,
                 yyerrstatus, _error, stderr, stdout, status, nalloc, prog, eof,
                 assigned, recovered, iters>>

\* The scanner meets the end of the input.
yylex_eof ==
  /\ pc = "lex"
  /\ tokens = <<>>
  /\ ~eof
  /\ src = <<>>
  /\ tokens' = EofTokens(indent, Len(lines) + 1)
  /\ indent' = 0
  /\ eof' = TRUE
  /\ UNCHANGED <<symbols, freed, dblfree, calls, pc, yyss, yychar, yylval, yylloc,
                 yyerrstatus, _error, stderr, stdout, status, nalloc, prog, src, lines,
                 assigned, recovered, iters>>

\* The scanner pushes its next token: yypush_parse(pstate, cat, &yylval, &yylloc).
yypush_parse ==
  /\ pc = "lex"
  /\ tokens # <<>>
  /\ yychar' = Head(tokens).cat
  /\ yylval' = Head(tokens).val
  /\ yylloc' = Head(tokens).line
  /\ tokens' = Tail(tokens)
  /\ pc' = "backup"
  /\ UNCHANGED <<symbols, freed, dblfree, calls, yyss, yyerrstatus, _error, stderr,
                 stdout, status, nalloc, prog, src, lines, indent, eof, assigned,
                 recovered, iters>>

yystate == yyss[Len(yyss)].state

\* yypact of a state is not YYPACT_NINF: its action depends on the lookahead.
needs_lookahead(s) == DOMAIN yyaction[s + 1] # {}

\* yybackup and yydefault: what the state does on the lookahead (0: an error).
yydecide(s, tok) ==
  IF tok \in DOMAIN yyaction[s + 1] THEN yyaction[s + 1][tok] ELSE 0 - yydefact[s + 1]

\* yynewstate: accept in the final state, return YYPUSH_MORE where a lookahead
\* is needed and there is none, go on otherwise.
yynewstate_no_accept(ss, ch) ==
  IF needs_lookahead(ss[Len(ss)].state) /\ ch = "YYEMPTY" THEN "lex" ELSE "backup"

yynewstate(ss, ch) ==
  IF ss[Len(ss)].state = YYFINAL THEN "accepted"
  ELSE IF needs_lookahead(ss[Len(ss)].state) /\ ch = "YYEMPTY" THEN "lex"
  ELSE "backup"

\* yybackup: shift the lookahead.
yyshift ==
  /\ pc = "backup"
  /\ yychar # "YYEMPTY"
  /\ needs_lookahead(yystate)
  /\ yydecide(yystate, yychar) > 0
  /\ yyss' = Append(yyss, [state |-> yydecide(yystate, yychar), val |-> yylval,
                           line |-> yylloc])
  /\ yyerrstatus' = IF yyerrstatus > 0 THEN yyerrstatus - 1 ELSE 0
  /\ yychar' = "YYEMPTY"
  /\ pc' = yynewstate(yyss', "YYEMPTY")
  /\ UNCHANGED <<symbols, freed, dblfree, calls, yylval, yylloc, _error, stderr,
                 stdout, status, nalloc, prog, src, lines, tokens, indent, eof,
                 assigned, recovered, iters>>

\* The action of the state on the lookahead: n > 0 shifts, n < 0 reduces rule -n,
\* 0 is a syntax error.  A state of one default reduction reads no lookahead.
yyn ==
  IF needs_lookahead(yystate) THEN yydecide(yystate, yychar)
  ELSE 0 - yydefact[yystate + 1]

\* yyreduce: run the action of rule -yyn on the top yylen entries; then pop them
\* and push the goto state with $$, or, after YYERROR, pop them and recover
\* (yyerrorlab).  An action that reads a string through a value that holds none
\* either faults or reads whatever is there.
yyreduce ==
  /\ pc = "backup"
  /\ yyn < 0
  /\ LET n == 0 - yyn
         yylen == yyr[n].len
         rhs == SubSeq(yyss, Len(yyss) - yylen + 1, Len(yyss))
         below == SubSeq(yyss, 1, Len(yyss) - yylen)
         r == yyaction_of(n, rhs, mem_now, _error, nalloc + 1)
         pushed == Append(below, [state |-> yygoto[below[Len(below)].state + 1][yyr[n].lhs],
                                  val |-> r.val, line |-> rhs[1].line])
     IN  \E outcome \in IF r.ub \/ r.mem.dblfree THEN {"fault", "junk"} ELSE {"defined"} :
           IF outcome = "fault"
           THEN /\ pc' = "exit"
                /\ status' = 139
                /\ UNCHANGED <<symbols, freed, dblfree, yyss, _error, stderr, nalloc,
                               assigned>>
           ELSE /\ symbols' = r.mem.h
                /\ freed' = r.mem.freed
                /\ dblfree' = r.mem.dblfree
                /\ _error' = r.err
                /\ stderr' = stderr \o r.diag
                /\ nalloc' = nalloc + 1
                /\ assigned' = IF n = 9
                               THEN Append(assigned, [key |-> rhs[1].val.str,
                                                      text |-> r.val.str,
                                                      value |-> rhs[3].val,
                                                      line |-> rhs[1].line])
                               ELSE assigned
                /\ yyss' = IF r.yyerror THEN below ELSE pushed
                /\ pc' = IF r.yyerror THEN "errlab1" ELSE yynewstate(pushed, yychar)
                /\ UNCHANGED status
  /\ UNCHANGED <<calls, yychar, yylval, yylloc, yyerrstatus, stdout, prog, src, lines,
                 tokens, indent, eof, recovered, iters>>

token_name(tok) == IF tok = "YYEOF" THEN "end of file" ELSE tok

\* yyerrlab: the state has no action on the lookahead.  Report it unless an
\* earlier error is still being recovered from; right after an error (status
\* 3) give up at the end of the input and drop the lookahead otherwise.
yyerrlab ==
  /\ pc = "backup"
  /\ yyn = 0
  /\ stderr' = IF yyerrstatus = 0 THEN Append(stderr, yyerror(token_name(yychar)))
               ELSE stderr
  /\ IF yyerrstatus = 3 /\ yychar = "YYEOF"
     THEN pc' = "aborted" /\ yychar' = yychar
     ELSE /\ pc' = "errlab1"
          /\ yychar' = IF yyerrstatus = 3 THEN "YYEMPTY" ELSE yychar
  /\ UNCHANGED <<symbols, freed, dblfree, calls, yyss, yylval, yylloc, yyerrstatus,
                 _error, stdout, status, nalloc, prog, src, lines, tokens, indent, eof,
                 assigned, recovered, iters>>

shifts_error(s) ==
  /\ "error" \in DOMAIN yyaction[s + 1]
  /\ yyaction[s + 1]["error"] > 0

\* yyerrlab1: pop the stack down to the nearest state that shifts the error
\* token and shift it, with yylval as its value; abort when there is none.
yyerrlab1 ==
  /\ pc = "errlab1"
  /\ yyerrstatus' = 3
  /\ recovered' = recovered + 1
  /\ IF \E k \in 1 .. Len(yyss) : shifts_error(yyss[k].state)
     THEN LET k == CHOOSE j \in 1 .. Len(yyss) :
                     /\ shifts_error(yyss[j].state)
                     /\ \A i \in j + 1 .. Len(yyss) : ~shifts_error(yyss[i].state)
              kept == SubSeq(yyss, 1, k)
          IN  /\ yyss' = Append(kept, [state |-> yyaction[yyss[k].state + 1]["error"],
                                       val |-> yylval, line |-> yylloc])
              /\ pc' = yynewstate(yyss', yychar)
     ELSE /\ yyss' = yyss
          /\ pc' = "aborted"
  /\ UNCHANGED <<symbols, freed, dblfree, calls, yychar, yylval, yylloc, _error,
                 stderr, stdout, status, nalloc, prog, src, lines, tokens, indent, eof,
                 assigned, iters>>

\* What the two iterations of main hand to printf: every key but "program".
emitted_keys_all(hash) == hash_iter_keys(hash)

emitted_keys(hash) == SelectSeq(hash_iter_keys(hash), LAMBDA key : key # "program")

declaration(key) == "double " \o key \o ";\n"

print_statement(key) == "printf(\"" \o key \o ": %lf\\n\", " \o key \o ");\n"

\* main, yylex() returned 0 and _error is 0: print the program and free the
\* table.  Each of the two loops takes an iterator from hash_iter_create and
\* none is passed to hash_iter_free.  Printing a body that is no string, or freeing a pointer that is no
\* live heap block, either kills the process or goes unnoticed.
main_emit ==
  /\ pc = "accepted"
  /\ _error = 0
  /\ LET keys == emitted_keys(symbols)
         body == hash_get(symbols, "program")
         m == hash_free(mem_now)
         undefined == \/ ~IsStr(body)
                      \/ m.dblfree
                      \/ \E value \in m.freed : ~IsStr(value)
     IN  /\ stdout' = <<"#include <stdio.h>\n", "int main() {\n">>
                        \o [p \in 1 .. Len(keys) |-> declaration(keys[p])]
                        \o <<"\n/* Begin Program */\n\n", StrOf(body),
                             "\n/* End Program */\n\n">>
                        \o [p \in 1 .. Len(keys) |-> print_statement(keys[p])]
                        \o <<"}\n">>
         /\ symbols' = m.h
         /\ freed' = m.freed
         /\ dblfree' = m.dblfree
         /\ \E outcome \in IF undefined THEN {"killed", "unnoticed"} ELSE {"defined"} :
              status' = IF outcome = "killed" THEN 134 ELSE 0
  /\ iters' = iters + 2
  /\ pc' = "exit"
  /\ UNCHANGED <<calls, yyss, yychar, yylval, yylloc, yyerrstatus, _error, stderr,
                 nalloc, prog, src, lines, tokens, indent, eof, assigned, recovered>>

\* main, yylex() returned nonzero or _error is set: return 1.
main_fail ==
  /\ \/ pc = "aborted"
     \/ pc = "accepted" /\ _error # 0
  /\ status' = 1
  /\ pc' = "exit"
  /\ UNCHANGED <<symbols, freed, dblfree, calls, yyss, yychar, yylval, yylloc,
                 yyerrstatus, _error, stderr, stdout, nalloc, prog, src, lines, tokens,
                 indent, eof, assigned, recovered, iters>>

Next ==
  \/ yylex_line
  \/ yylex_eof
  \/ yypush_parse
  \/ yyshift
  \/ yyreduce
  \/ yyerrlab
  \/ yyerrlab1
  \/ main_emit
  \/ main_fail

Spec == Init /\ [][Next]_vars

\* The runs on the programs with control flow and on every brief input.
InitLive ==
  /\ ParserStart
  /\ calls = <<>>
  /\ prog \in {"if_else", "elif_chain", "while_loop", "brief"}
  /\ src = IF prog = "brief" THEN <<>> ELSE Programs[prog]

\* The run is one sequential process: while a step is possible it takes one.
SpecLive == InitLive /\ [][Next]_vars /\ WF_vars(Next)

(***************************************************************************)
(* Claims about the table.                                                 *)
(***************************************************************************)

InsertOnly == \A p \in 1 .. Len(calls) : calls[p].op = "insert"

\* The value of the latest hash_insert call that named key.
LastInserted(key) ==
  LET p == CHOOSE q \in 1 .. Len(calls) :
             /\ calls[q].key = key
             /\ \A r \in q + 1 .. Len(calls) : calls[r].key # key
  IN  calls[p].value

\* The table as it was after call p.
AfterCall(p) == IF p < Len(calls) THEN calls[p + 1].before ELSE symbols

\* C1: after any run of hash_insert calls on a fresh table, hash_get of every
\* inserted key returns the value most recently inserted under it, and the table
\* has not released that value.
C1_GetReturnsLiveLatest ==
  InsertOnly =>
    \A key \in UsedKeys :
      /\ hash_get(symbols, key) = LastInserted(key)
      /\ LastInserted(key) \notin freed

\* The capacities INITIAL_CAPACITY * 2^k.
RECURSIVE Doubling(_)
Doubling(k) == IF k = 0 THEN INITIAL_CAPACITY ELSE 2 * Doubling(k - 1)

Doublings == {Doubling(k) : k \in 0 .. 6}

\* The largest num_elems any hash_insert call found on entry.
PeakAtInsert ==
  LET seen == {calls[p].before.num_elems : p \in 1 .. Len(calls)} \cup {0}
  IN  CHOOSE n \in seen : \A o \in seen : o <= n

SmallestDoubling(n) ==
  CHOOSE c \in Doublings :
    /\ n <= 5 * c
    /\ \A d \in Doublings : n <= 5 * d => c <= d

\* C9: after any run of hash_insert calls the capacity is the smallest
\* INITIAL_CAPACITY * 2^k under which no insert found more than 5 * capacity
\* elements on entry; every call leaves the capacity alone except a hash_insert
\* that finds more than 5 * capacity elements on entry, which doubles it, whether
\* its key is new or not.
C9_CapacitySmallestDoubling ==
  /\ InsertOnly => symbols.capacity = SmallestDoubling(PeakAtInsert)
  /\ \A p \in 1 .. Len(calls) :
       AfterCall(p).capacity =
         IF /\ calls[p].op = "insert"
            /\ calls[p].before.num_elems > 5 * calls[p].before.capacity
         THEN 2 * calls[p].before.capacity
         ELSE calls[p].before.capacity

\* Witness of C9: two resizes in a run of inserts, one of them made by an insert
\* that only updated a key.
C9_Witness ==
  /\ InsertOnly
  /\ symbols.capacity = 4 * INITIAL_CAPACITY
  /\ \E p \in 1 .. Len(calls) :
       /\ calls[p].dup
       /\ AfterCall(p).capacity = 2 * calls[p].before.capacity
       /\ AfterCall(p).num_elems = calls[p].before.num_elems

(***************************************************************************)
(* Claims about the translator.                                            *)
(***************************************************************************)

AssignedKeys == {assigned[p].key : p \in 1 .. Len(assigned)}

\* The run has ended on the input made of exactly these lines.
RanOn(input) == pc = "exit" /\ prog = "any" /\ lines = input

\* C2: every diagnostic the engine reports sets the failure flag, whether it
\* comes from an error production, from an undefined identifier or from yyerror.
C2_DiagnosticSetsFlag == stderr # <<>> => _error = 1

\* C3: the emitter runs exactly when the engine accepted with the failure flag
\* unset, and a run that reported a diagnostic emits nothing and ends with a
\* nonzero status.
C3_AllOrNothing ==
  pc = "exit" =>
    /\ stdout # <<>> <=> (yystate = YYFINAL /\ _error = 0)
    /\ stderr # <<>> => (stdout = <<>> /\ status # 0)

\* C4: the failure flag is 0 when the run starts, and no step of the run takes
\* it from set back to unset.
C4_FlagMonotonic == _error = 0 /\ [][_error = 1 => _error' = 1]_vars

\* Witness of C4: the flag is set by an error in the first line, the parser has
\* recovered, reduced a later assignment and accepted, and the flag is still set.
C4_Witness ==
  /\ pc = "accepted"
  /\ _error = 1
  /\ recovered > 0
  /\ \E p \in 1 .. Len(assigned) : assigned[p].line > 1
  /\ lines[1] = L(<<"if", "x", ">", "5">>, 0)

\* C5: the reduction of an identifier to an expression, when no assignment to
\* that identifier has been reduced before, writes the Invalid Symbol diagnostic
\* with the identifier and its line and sets the failure flag, and the parser
\* goes on with the expression on the stack, outside error recovery.
C5_UndefinedReference ==
  [][(/\ pc = "backup"
      /\ yyn = 0 - 44
      /\ yyss[Len(yyss)].val.str \notin AssignedKeys)
     => /\ stderr' = Append(stderr,
                            "Error: Invalid Symbol (" \o yyss[Len(yyss)].val.str
                              \o ") on line " \o itoa(yyss[Len(yyss)].line) \o "\n")
        /\ _error' = 1
        /\ pc' \in {"lex", "backup"}
        /\ recovered' = recovered
        /\ Len(yyss') = Len(yyss)
        /\ yyss'[Len(yyss')].val = yyss[Len(yyss)].val]_vars

\* Witness of C5: y is referenced in the body of a while loop with no assignment
\* to y before it; the run is accepted with that one diagnostic and no recovery.
C5_Witness ==
  /\ pc = "accepted"
  /\ recovered = 0
  /\ _error = 1
  /\ stderr = <<"Error: Invalid Symbol (y) on line 3\n">>
  /\ lines = <<L(<<"x", "=", "5">>, 0), L(<<"while", "x", ":">>, 0),
               L(<<"x", "=", "y">>, 1)>>

Range(seq) == {seq[p] : p \in 1 .. Len(seq)}

Identifiers == {"a", "b", "c", "d", "e", "f", "x", "y", "program"}

DeclaredKeys == {key \in Identifiers : declaration(key) \in Range(stdout)}

PrintedKeys == {key \in Identifiers : print_statement(key) \in Range(stdout)}

\* C6: a run on an input of assignments, if/elif/else chains, while loops and
\* break whose identifiers are all assigned before they are referenced succeeds,
\* declares exactly the assigned identifiers other than "program", and prints
\* exactly the identifiers it declares.
C6_ValidInputTranslates ==
  pc = "exit" /\ prog \in DOMAIN Programs =>
    /\ status = 0
    /\ DeclaredKeys = AssignedKeys \ {"program"}
    /\ PrintedKeys = DeclaredKeys

\* The first position from which frag occurs in s at or after from, 0 if none.
RECURSIVE find(_, _, _)
find(s, frag, from) ==
  IF from + Len(frag) - 1 > Len(s) THEN 0
  ELSE IF SubSeq(s, from, from + Len(frag) - 1) = frag THEN from
  ELSE find(s, frag, from + 1)

\* The fragments occur in s one after the other, in their order.
RECURSIVE in_order(_, _, _)
in_order(s, frags, from) ==
  \/ frags = <<>>
  \/ /\ frags # <<>>
     /\ find(s, Head(frags), from) # 0
     /\ in_order(s, Tail(frags), find(s, Head(frags), from) + Len(Head(frags)))

LastAssigned(key) ==
  LET p == CHOOSE q \in 1 .. Len(assigned) :
             /\ assigned[q].key = key
             /\ \A r \in q + 1 .. Len(assigned) : assigned[r].key # key
  IN  assigned[p]

\* C7: in a run accepted without error recovery, the body stored under "program"
\* holds the text of every assignment reduced, reassignments included, in the
\* order of their reduction, and the table holds for every identifier the value
\* of its last assignment.
C7_BodyAppendOnly ==
  pc = "accepted" /\ recovered = 0 =>
    /\ hash_contains(symbols, "program") = 1
    /\ in_order(hash_get(symbols, "program").str,
                [p \in 1 .. Len(assigned) |-> assigned[p].text], 1)
    /\ \A key \in AssignedKeys : hash_get(symbols, key) = LastAssigned(key).value

\* Witness of C7: an accepted run without recovery in which an identifier has
\* been assigned twice, with different texts.
C7_Witness ==
  /\ pc = "accepted"
  /\ recovered = 0
  /\ \E p, q \in 1 .. Len(assigned) :
       /\ p < q
       /\ assigned[p].key = assigned[q].key
       /\ assigned[p].text # assigned[q].text

IfWithoutColon == <<L(<<"if", "x", ">", "5">>, 0)>>

\* C8: the run on the one line "if x > 5" reports exactly one diagnostic, the
\* missing colon of line 1, and emits nothing.
C8_OneDiagnostic ==
  RanOn(IfWithoutColon) =>
    /\ stderr = <<"Error: Missing colon after 'if' statement on line 1\n">>
    /\ stdout = <<>>

\* C8 as the code has it: the run on the one line "if x > 5" reports two
\* diagnostics, the undefined x of line 1 and then the missing colon of line 1,
\* emits nothing and ends with status 1.
C8_TwoDiagnostics ==
  RanOn(IfWithoutColon) =>
    /\ stderr = <<"Error: Invalid Symbol (x) on line 1\n",
                  "Error: Missing colon after 'if' statement on line 1\n">>
    /\ stdout = <<>>
    /\ status = 1

\* Witness of C8: the run on "if x > 5" has ended.
C8_Witness == RanOn(IfWithoutColon) /\ recovered > 0 /\ _error = 1

\* Lines that are a structural error as the first line of an input.
ErrorLines == {<<"if", "x", ">", "5">>, <<"break", "x">>, <<"x", "y", "=", "5">>}

\* C10: when the first line is a structural error, the statement of the second
\* line is parsed as usual: an assignment there is reduced, and an invalid
\* assignment there gets its own diagnostic.
C10_ResumesAfterNewline ==
  (/\ pc = "exit"
   /\ Len(lines) >= 2
   /\ lines[1].words \in ErrorLines
   /\ lines[1].level = 0)
  => /\ lines[2] = L(<<"x", "=", "5">>, 0)
          => \E p \in 1 .. Len(assigned) : assigned[p].line = 2
     /\ lines[2] = L(<<"x", "y", "=", "5">>, 0)
          => "Error: Invalid assignment statement on line 2\n" \in Range(stderr)

\* C11: when main returns, with 0 after the emission or with the failure
\* status 1, the run has released what it owns: the symbol table with its
\* buckets, keys and stored fragments, and every table iterator.
C11_ReleasedOnExit ==
  pc = "exit" /\ status \in {0, 1} => symbols = NULL /\ iters = 0

\* C12: every run on a finite input ends: the engine accepts, aborts or the
\* process dies, and main returns.
C12_Terminates == <>(pc = "exit" /\ status # 0 - 1)

\* Witness of C12: a run on an input of the greatest length has ended after the
\* parser skipped tokens in error recovery.
C12_Witness ==
  /\ pc = "exit"
  /\ prog = "brief"
  /\ Len(lines) = MaxLiveLines
  /\ recovered > 1

\* C13: the reduction of a numeric literal, INTEGER or FLOAT, whose value is
\* its own integer part yields that integer with one decimal place ("5.0"), the
\* reduction of any other numeric literal yields its shortest form, and the
\* reduction of True yields "1" and of False "0".
C13_LiteralRendering ==
  [][pc = "backup" =>
       /\ yyn \in {0 - 40, 0 - 41} =>
            yyss'[Len(yyss')].val.str =
              IF yyss[Len(yyss)].val.num % 100 = 0
              THEN itoa(yyss[Len(yyss)].val.num \div 100) \o ".0"
              ELSE fmt_g(yyss[Len(yyss)].val.num)
       /\ yyn = 0 - 42 =>
            yyss'[Len(yyss')].val.str =
              IF yyss[Len(yyss)].val.str = "True" THEN "1" ELSE "0"]_vars

Declarations == {p \in 1 .. Len(stdout) : \E key \in Identifiers : stdout[p] = declaration(key)}

PrintStatements ==
  {p \in 1 .. Len(stdout) : \E key \in Identifiers : stdout[p] = print_statement(key)}

\* C14: a run that ends with status 0 has written, in this order, the preamble,
\* the declarations, the body (the value of program, between its two markers),
\* the print statements and the closing brace; every assigned identifier has
\* exactly one declaration and one print statement, and there are no others.
C14_EmissionOrder ==
  pc = "exit" /\ status = 0 =>
    /\ SubSeq(stdout, 1, 2) = <<"#include <stdio.h>\n", "int main() {\n">>
    /\ stdout[Len(stdout)] = "}\n"
    /\ \E b \in 4 .. Len(stdout) - 2 :
         /\ stdout[b - 1] = "\n/* Begin Program */\n\n"
         /\ stdout[b] = StrOf(yyss[2].val)
         /\ stdout[b + 1] = "\n/* End Program */\n\n"
         /\ Declarations = 3 .. b - 2
         /\ PrintStatements = b + 2 .. Len(stdout) - 1
    /\ Cardinality(Declarations) = Cardinality(AssignedKeys)
    /\ Cardinality(PrintStatements) = Cardinality(AssignedKeys)
    /\ \A key \in AssignedKeys :
         /\ \E p \in Declarations : stdout[p] = declaration(key)
         /\ \E p \in PrintStatements : stdout[p] = print_statement(key)

\* Witness of C14: a run on a program that assigns two identifiers has ended
\* with status 0.
C14_Witness ==
  /\ pc = "exit"
  /\ status = 0
  /\ prog = "if_else"
  /\ Cardinality(AssignedKeys) = 2

(***************************************************************************)
(* More claims about the table.                                            *)
(***************************************************************************)

Keys(hash) == {hash_assocs(hash)[p].key : p \in 1 .. Len(hash_assocs(hash))}

\* Every association sits in the bucket of its key's hash modulo the capacity.
InOwnBucket(hash) ==
  \A idx \in 0 .. hash.capacity - 1 :
    \A p \in 1 .. Len(hash.table[idx]) :
      hash_idx(_djb_hash(hash.table[idx][p].key), hash.capacity) = idx

\* The call found more than 5 * capacity elements on entry, and so resized.
Resized(p) ==
  /\ calls[p].op = "insert"
  /\ calls[p].before.num_elems > 5 * calls[p].before.capacity

\* C15: a hash_insert that resizes leaves a table of exactly twice the capacity
\* (the rehash resizes no further) that holds the keys it held before and the
\* key inserted, each in the bucket of its hash modulo the new capacity; and no
\* call, insert or remove, lowers the capacity.
C15_ResizePreserves ==
  \A p \in 1 .. Len(calls) :
    /\ AfterCall(p).capacity >= calls[p].before.capacity
    /\ Resized(p) =>
         /\ AfterCall(p).capacity = 2 * calls[p].before.capacity
         /\ Keys(AfterCall(p)) = Keys(calls[p].before) \cup {calls[p].key}
         /\ InOwnBucket(AfterCall(p))

\* Witness of C15: a table that lost a key to hash_remove has later been resized
\* with more than one key in some bucket of the new table.
C15_Witness ==
  \E p \in 1 .. Len(calls) :
    /\ Resized(p)
    /\ \E q \in 1 .. p - 1 : calls[q].op = "remove"
    /\ \E idx \in 0 .. AfterCall(p).capacity - 1 : Len(AfterCall(p).table[idx]) > 1

\* C16: hash_remove of a key the table holds leaves a table without that key
\* (hash_contains 0, hash_get NULL, one element fewer) in which every other key
\* has the value it had; hash_remove of a key the table does not hold leaves
\* the table as it was.
C16_RemoveExactlyKey ==
  \A p \in 1 .. Len(calls) :
    calls[p].op = "remove" =>
      IF hash_contains(calls[p].before, calls[p].key) = 1
      THEN /\ hash_contains(AfterCall(p), calls[p].key) = 0
           /\ hash_get(AfterCall(p), calls[p].key) = NULL
           /\ AfterCall(p).num_elems = calls[p].before.num_elems - 1
           /\ AfterCall(p).capacity = calls[p].before.capacity
           /\ Keys(AfterCall(p)) = Keys(calls[p].before) \ {calls[p].key}
           /\ \A key \in Keys(AfterCall(p)) :
                hash_get(AfterCall(p), key) = hash_get(calls[p].before, key)
      ELSE AfterCall(p) = calls[p].before

\* Witness of C16: one hash_remove took a key out of a chain that held other
\* keys, and another named a key the table did not hold.
C16_Witness ==
  /\ \E p \in 1 .. Len(calls) :
       /\ calls[p].op = "remove"
       /\ hash_contains(calls[p].before, calls[p].key) = 1
       /\ AfterCall(p).num_elems > 1
       /\ AfterCall(p).capacity = 1
  /\ \E p \in 1 .. Len(calls) :
       /\ calls[p].op = "remove"
       /\ hash_contains(calls[p].before, calls[p].key) = 0

\* The associations a fresh iterator hands out on the table.
Yielded(hash) == hash_iter_loop(hash_iter_create(hash))

\* C17: an iterator created on a table that is left alone during the iteration
\* hands out num_elems pairs with pairwise distinct keys, each the (key, value)
\* pair the table stores under that key, and every stored key among them; on an
\* empty table hash_iter_has_next is 0 at once.
C17_IteratorYieldsEachOnce ==
  /\ Len(Yielded(symbols)) = symbols.num_elems
  /\ \A p, q \in 1 .. Len(Yielded(symbols)) :
       Yielded(symbols)[p].key = Yielded(symbols)[q].key => p = q
  /\ \A p \in 1 .. Len(Yielded(symbols)) :
       hash_get(symbols, Yielded(symbols)[p].key) = Yielded(symbols)[p].value
  /\ {Yielded(symbols)[p].key : p \in 1 .. Len(Yielded(symbols))} = Keys(symbols)
  /\ symbols.num_elems = 0 => hash_iter_has_next(hash_iter_create(symbols)) = 0

\* Witness of C17: the iteration ran over a table of several buckets, each
\* holding a chain of more than one association, after a removal.
C17_Witness ==
  /\ symbols.capacity > 1
  /\ \A idx \in 0 .. symbols.capacity - 1 : Len(symbols.table[idx]) > 1
  /\ Len(Yielded(symbols)) > 2
  /\ \E p \in 1 .. Len(calls) : calls[p].op = "remove"

\* C19: between calls of hash_insert and hash_remove, num_elems is the number
\* of associations in the buckets, no key is in more than one association, and
\* every association sits in the bucket of its key's hash modulo the capacity.
C19_TableWellFormed ==
  /\ symbols.num_elems = Len(hash_assocs(symbols))
  /\ \A p, q \in 1 .. Len(hash_assocs(symbols)) :
       hash_assocs(symbols)[p].key = hash_assocs(symbols)[q].key => p = q
  /\ InOwnBucket(symbols)

\* Witness of C19: the table has been resized, and has seen a key inserted a
\* second time and a key removed.
C19_Witness ==
  /\ symbols.capacity > INITIAL_CAPACITY
  /\ \E p \in 1 .. Len(calls) : calls[p].op = "insert" /\ calls[p].dup
  /\ \E p \in 1 .. Len(calls) :
       calls[p].op = "remove" /\ hash_contains(calls[p].before, calls[p].key) = 1

\* The table holds one element more than LOAD_FACTOR_THR per bucket allows.
OverThreshold(hash) == hash.num_elems = LOAD_FACTOR_THR * hash.capacity + 1

\* C20: between calls num_elems never exceeds 5 * capacity + 1; a table with
\* 5 * capacity + 1 elements, whose load factor is above the threshold, keeps
\* its capacity through every hash_remove, and the next hash_insert doubles it.
C20_LoadBounded ==
  /\ symbols.num_elems <= LOAD_FACTOR_THR * symbols.capacity + 1
  /\ \A p \in 1 .. Len(calls) :
       /\ calls[p].op = "remove" => AfterCall(p).capacity = calls[p].before.capacity
       /\ calls[p].op = "insert" =>
            (AfterCall(p).capacity # calls[p].before.capacity
               <=> OverThreshold(calls[p].before))

\* Witness of C20: the table held 5 * capacity + 1 elements, a hash_remove of a
\* key it did not hold left it so, and it still holds as many.
C20_Witness ==
  /\ OverThreshold(symbols)
  /\ calls # <<>>
  /\ calls[Len(calls)].op = "remove"
  /\ OverThreshold(calls[Len(calls)].before)

(***************************************************************************)
(* More claims about the translator.                                       *)
(***************************************************************************)

\* The diagnostic reads "Error: <message> on line <N>".
HasLine(diag) ==
  /\ SubSeq(diag, 1, 7) = "Error: "
  /\ find(diag, " on line ", 8) # 0
  /\ \E N \in 1 .. MaxLines + 1 :
       SubSeq(diag, find(diag, " on line ", 8), Len(diag)) = " on line " \o itoa(N) \o "\n"

\* C18: every diagnostic of the run, the one of yyerror included, reads
\* "Error: <message> on line <N>".
C18_DiagnosticsCarryLine == \A p \in 1 .. Len(stderr) : HasLine(stderr[p])

AssignsUndefined == L(<<"x", "=", "y">>, 0)

\* C21: a run whose first line is "x = y", with y never assigned, reports the
\* undefined y of line 1 and still reduces the assignment: x is in the symbol
\* table with the statement "x = y;", no later line gets an Invalid Symbol
\* diagnostic for x, the failure flag is set at the end and nothing is emitted.
C21_AssignmentCompletes ==
  (/\ pc = "exit"
   /\ prog = "any"
   /\ lines # <<>>
   /\ lines[1] = AssignsUndefined)
  => /\ stderr # <<>>
     /\ stderr[1] = "Error: Invalid Symbol (y) on line 1\n"
     /\ \E p \in 1 .. Len(assigned) :
          /\ assigned[p].key = "x"
          /\ assigned[p].line = 1
          /\ assigned[p].text = "x = y;\n"
     /\ symbols # NULL
     /\ hash_contains(symbols, "x") = 1
     /\ \A p \in 1 .. Len(stderr) : find(stderr[p], "Invalid Symbol (x)", 1) = 0
     /\ _error = 1
     /\ stdout = <<>>
     /\ status # 0

\* Witness of C21: after "x = y" the line "if x > 5" referenced x; the run
\* reported the undefined y and the missing colon, and nothing about x.
C21_Witness ==
  /\ pc = "exit"
  /\ prog = "any"
  /\ lines = <<AssignsUndefined, L(<<"if", "x", ">", "5">>, 0)>>
  /\ stderr = <<"Error: Invalid Symbol (y) on line 1\n",
                "Error: Missing colon after 'if' statement on line 2\n">>
  /\ hash_contains(symbols, "x") = 1

====
